---- MODULE Spec2Model ----
(***************************************************************************)
(* Model of the steganography encoder's command-line program: main(),      *)
(* encode() and decode() of src/src/main.cpp, over the pixel buffer of the *)
(* Image class.  The Image class (image.hpp) is not part of the sources;   *)
(* its bit packer is modelled from sections 4.1 and 4.2 of the             *)
(* specification.                                                          *)
(***************************************************************************)
EXTENDS Integers, Sequences, FiniteSets

VARIABLES
    pc,           \* position of the program
    mode,         \* argv[1]: "encode" or "decode"
    img,          \* the input image file named by -i
    pixels,       \* the Image object's pixel buffer, slot -> byte
    input,        \* the embed file named by -e: <<>> or <<[name, data]>>
    level,        \* the level argument of encode() (the LEVEL macro)
    size,         \* encode(): size
    padded_size,  \* encode(): padded_size
    max_size,     \* encode(): max_size, an unsigned int
    padded_data,  \* encode(): padded_data
    offset,       \* encode(): offset, a std::uint32_t
    header,       \* encode(): the bytes of the Header object
    saved,        \* the output image file: <<>> or <<pixels>>
    ret,          \* the value returned to main (the exit status)
    dheader,      \* decode(): the bytes of the Header object
    name,         \* decode(): name
    data,         \* decode(): data
    left,         \* decode(): left
    dsize,        \* decode(): size
    outFile       \* the file decode() writes: <<>> or <<bytes>>

vars == <<pc, mode, img, pixels, input, level, size, padded_size, max_size,
          padded_data, offset, header, saved, ret, dheader, name,
          data, left, dsize, outFile>>

-----------------------------------------------------------------------------
(* Bounds of the model. *)

\* embed files have 0 .. MaxFileLen bytes
MaxFileLen == 17

-----------------------------------------------------------------------------
(* Program constants. *)

VERSION == 1
Low == 0
Medium == 1
High == 2
Levels == {Low, Medium, High}
\* sizeof(Header): 4 + 2 + 1 + 1 + 4 + 4 + 32 + 12, no padding
HeaderSize == 60
\* sizeof(header.name)
NameSize == 32
\* sizeof(header.reserved)
ReservedSize == 12
\* the block size of the padding
PadBlock == 16
\* channels per pixel
Channels == 4
\* the signature 'H' 'I' 'D' 'E'
Signature == <<72, 73, 68, 69>>

-----------------------------------------------------------------------------
(* 32-bit unsigned values, kept as two 16-bit halves: TLC's integers stop  *)
(* at 2^31 - 1.                                                            *)

Base == 2 ^ 16

U32(n) == [hi |-> n \div Base, lo |-> n % Base]

U32Add(a, b) ==
    LET lo == a.lo + b.lo
        hi == a.hi + b.hi + (lo \div Base)
    IN  [hi |-> hi % Base, lo |-> lo % Base]

U32Sub(a, b) ==
    LET lo == a.lo - b.lo
        borrow == IF lo < 0 THEN 1 ELSE 0
        hi == a.hi - b.hi - borrow
    IN  [hi |-> hi % Base, lo |-> lo % Base]

U32Less(a, b) == a.hi < b.hi \/ (a.hi = b.hi /\ a.lo < b.lo)

\* a mod m, for 0 < m < 2^15
U32Mod(a, m) == ((a.hi % m) * Base + a.lo) % m

\* the value as an integer, for values below 2^31
U32Nat(a) == a.hi * Base + a.lo

\* the four bytes of the value in memory (little-endian)
U32Bytes(a) == <<a.lo % 256, a.lo \div 256, a.hi % 256, a.hi \div 256>>

U32FromBytes(b) == [lo |-> b[1] + 256 * b[2], hi |-> b[3] + 256 * b[4]]

-----------------------------------------------------------------------------
(* The Image class: capacity model and bit packer.                         *)

\* bits of a channel-slot the level overwrites
BitsPerSlot(lv) == CASE lv = Low -> 1 [] lv = Medium -> 2 [] lv = High -> 4

\* Image::encoded_size: ceil(byte_count * 8 / bits_per_slot(level))
encoded_size(n, lv) == (n * 8 + BitsPerSlot(lv) - 1) \div BitsPerSlot(lv)

Slots(buf) == Cardinality(DOMAIN buf)

\* Image::encode: the bytes bs written from slot `start` on, each byte as
\* groups of BitsPerSlot bits, most significant group first, each group
\* replacing the low bits of one slot; slot indices wrap modulo the slot count
ImageEncode(buf, bs, lv, start) ==
    LET T == Slots(buf)
        bits == BitsPerSlot(lv)
        spb == encoded_size(1, lv)
        n == Len(bs) * spb
        s == start % T
    IN  [i \in DOMAIN buf |->
            LET j0 == (i - s + T) % T
            IN  IF j0 >= n THEN buf[i]
                ELSE LET j == j0 + T * ((n - 1 - j0) \div T)
                         byte == bs[(j \div spb) + 1]
                         g == j % spb
                         grp == (byte \div (2 ^ (bits * (spb - 1 - g)))) % (2 ^ bits)
                     IN  (buf[i] \div (2 ^ bits)) * (2 ^ bits) + grp]

RECURSIVE GatherByte(_, _, _, _, _)
GatherByte(buf, first, bits, g, acc) ==
    IF g = 8 \div bits THEN acc
    ELSE GatherByte(buf, first, bits, g + 1,
                    acc * (2 ^ bits) + (buf[(first + g) % Slots(buf)] % (2 ^ bits)))

\* Image::decode: n bytes gathered from slot `start` on, in the order of encode
ImageDecode(buf, n, lv, start) ==
    LET spb == encoded_size(1, lv)
        s == start % Slots(buf)
    IN  [k \in 1..n |-> GatherByte(buf, s + (k - 1) * spb, BitsPerSlot(lv), 0, 0)]

-----------------------------------------------------------------------------
(* The inputs. *)

\* the content of an embed file of n bytes
FileData(n) == [i \in 1..n |-> (i * 37 + 11) % 256]

\* file names of 2, 32 and 33 bytes
ShortName == <<104, 105>>
FullName == [i \in 1..NameSize |-> 97 + (i % 26)]
LongName == [i \in 1..(NameSize + 1) |-> 97 + (i % 26)]
Names == {ShortName, FullName, LongName}

\* the embed files; <<>> is a path that cannot be opened
EmbedFiles ==
    {<<>>} \cup {<<[name |-> nm, data |-> FileData(n)]>> :
                    nm \in Names, n \in 0..MaxFileLen}

\* the values drawn from the randomness source
RandomDraws == {U32(0), U32(176), [hi |-> Base - 1, lo |-> Base - 1]}

\* a plain image of w x h pixels
PlainImage(w, h) == [i \in 0..(w * h * Channels - 1) |-> (i * 7 + 3) % 256]

\* the bytes of a Header object
HeaderBytes(sig, version, lv, flags, off, sz, nm, reserved) ==
    sig \o <<version % 256, version \div 256>> \o <<lv, flags>>
        \o U32Bytes(off) \o U32Bytes(sz)
        \o [i \in 1..NameSize |-> IF i <= Len(nm) THEN nm[i] ELSE 0]
        \o reserved

Zeros(n) == [i \in 1..n |-> 0]

\* an image made by another program: a header at slot 0, level Low, and a
\* padded payload of PadBlock bytes whose last byte is p, at level lv
Crafted(sig, version, reserved, lv, p) ==
    LET hdr == HeaderBytes(sig, version, lv, 0,
                           U32(encoded_size(HeaderSize, Low)), U32(PadBlock),
                           ShortName, reserved)
        pay == [i \in 1..PadBlock |-> IF i = PadBlock THEN p ELSE 65]
        base == PlainImage(13, 13)
    IN  ImageEncode(ImageEncode(base, hdr, Low, 0), pay, lv,
                    encoded_size(HeaderSize, Low))

ImageFiles == {"tiny", "mid", "big", "badversion", "badreserved", "pad0",
               "padbig", "padok"}

EncodeImages == {"tiny", "mid", "big"}

\* the pixel buffer image.load() yields
Load(f) ==
    CASE f = "tiny" -> PlainImage(8, 8)
      [] f = "mid" -> PlainImage(31, 32)
      [] f = "big" -> PlainImage(34, 34)
      [] f = "badversion" -> Crafted(Signature, 2, Zeros(ReservedSize), High, 1)
      [] f = "badreserved" ->
            Crafted(Signature, VERSION, [i \in 1..ReservedSize |-> IF i = 7 THEN 1 ELSE 0], High, 1)
      [] f = "pad0" -> Crafted(Signature, VERSION, Zeros(ReservedSize), High, 0)
      [] f = "padbig" -> Crafted(Signature, VERSION, Zeros(ReservedSize), Medium, 200)
      [] f = "padok" -> Crafted(Signature, VERSION, Zeros(ReservedSize), Low, 3)

-----------------------------------------------------------------------------
(* The program. *)

Init ==
    /\ pc = "main"
    /\ mode \in {"encode", "decode"}
    /\ img \in ImageFiles
    /\ mode = "encode" => img \in EncodeImages
    /\ pixels = <<>>
    /\ input \in EmbedFiles
    /\ mode = "decode" => input = <<>>
    /\ level \in Levels
    /\ mode = "decode" => level = Low
    /\ size = 0
    /\ padded_size = 0
    /\ max_size = U32(0)
    /\ padded_data = <<>>
    /\ offset = U32(0)
    /\ header = <<>>
    /\ saved = <<>>
    /\ ret = 0
    /\ dheader = <<>>
    /\ name = <<>>
    /\ data = <<>>
    /\ left = 0
    /\ dsize = 0
    /\ outFile = <<>>

\* main: load the image and call encode() or decode()
Main ==
    /\ pc = "main"
    /\ pixels' = Load(img)
    /\ pc' = IF mode = "encode" THEN "ReadInput" ELSE "ReadHeaderRegion"
    /\ UNCHANGED <<mode, img, input, level, size, padded_size, max_size,
                   padded_data, offset, header, saved, ret, dheader,
                   name, data, left, dsize, outFile>>

\* the variables of encode() and decode() that an action leaves alone
EncLocals == <<size, padded_size, max_size, padded_data, offset, header>>
DecLocals == <<dheader, name, data, left, dsize>>
Args == <<mode, img, input, level>>

\* a padded size that rounds n up to the block, without the extra byte
PaddedSizeRoundUp(n) == ((n + PadBlock - 1) \div PadBlock) * PadBlock

\* lines 43-46: the padded size of a file of n bytes
PaddedSize(n) ==
    IF (n + 1) % PadBlock # 0 THEN (n \div PadBlock + 1) * PadBlock ELSE n + 1

\* line 48: max_size, computed in unsigned int
MaxSize(buf, lv) ==
    U32Sub(U32(Slots(buf) \div encoded_size(1, lv)),
           U32(encoded_size(HeaderSize, Low)))

\* a capacity check that lets one more block through
TooBigByBlock(psize, msize) == U32Less(U32Add(msize, U32(PadBlock)), U32(psize))

\* line 53: padded_size > max_size
TooBig(psize, msize) == U32Less(msize, U32(psize))

\* lines 58-64: the file's bytes followed by `left` bytes of value `left`
PaddedData(bs, psize) ==
    LET l == (psize - Len(bs)) % 256
    IN  bs \o [i \in 1..l |-> l]

\* line 73: the divisor encoded_size(max_size - padded_size, level); it is 0
\* or a number below 2^15, or it is not below 2^33 ("huge")
ModulusIsZero(msize, psize) == msize = U32(psize)
ModulusIsHuge(msize, psize) == U32Sub(msize, U32(psize)).hi >= Base \div 2

\* line 73: (offset + encoded_size(sizeof(Header), Low)) % divisor, stored
\* in 32 bits.  A huge divisor exceeds the sum, which is then the remainder;
\* division by zero is undefined, and a build whose division yields 0
\* leaves the sum as the remainder too.
FoldOffset(r, msize, psize, lv) ==
    LET hs == encoded_size(HeaderSize, Low)
    IN  IF ModulusIsZero(msize, psize) \/ ModulusIsHuge(msize, psize)
        THEN U32Add(r, U32(hs))
        ELSE LET m == encoded_size(U32Nat(U32Sub(msize, U32(psize))), lv)
             IN  U32((U32Mod(r, m) + hs) % m)

\* lines 75-90: the Header object
BuildHeader(lv, off, psize, nm) ==
    HeaderBytes(Signature, VERSION, lv, 0, off, U32(psize), nm, Zeros(ReservedSize))

\* lines 34-43: open the embed file and take its size
EncReadInput ==
    /\ pc = "ReadInput"
    /\ IF input = <<>>
       THEN /\ pc' = "done"
            /\ ret' = -1
            /\ size' = size
       ELSE /\ pc' = "ComputePadding"
            /\ ret' = ret
            /\ size' = Len(input[1].data)
    /\ UNCHANGED <<Args, pixels, padded_size, max_size, padded_data, offset,
                   header, saved, DecLocals, outFile>>

\* lines 44-48: padded_size and max_size
EncComputePadding ==
    /\ pc = "ComputePadding"
    /\ padded_size' = PaddedSize(size)
    /\ max_size' = MaxSize(pixels, level)
    /\ pc' = "CheckCapacity"
    /\ UNCHANGED <<Args, pixels, size, padded_data, offset, header, saved, ret, DecLocals, outFile>>

\* lines 53-64: the capacity check, then the padded data
EncCheckCapacity ==
    /\ pc = "CheckCapacity"
    /\ IF TooBig(padded_size, max_size)
       THEN /\ pc' = "done"
            /\ ret' = -1
            /\ padded_data' = padded_data
       ELSE /\ pc' = "ChooseOffset"
            /\ ret' = ret
            /\ padded_data' = PaddedData(input[1].data, padded_size)
    /\ UNCHANGED <<Args, pixels, size, padded_size, max_size, offset, header,
                   saved, DecLocals, outFile>>

\* lines 66-71: the randomness source fails
EncRandomFails ==
    /\ pc = "ChooseOffset"
    /\ pc' = "done"
    /\ ret' = -1
    /\ UNCHANGED <<Args, pixels, EncLocals, saved, DecLocals, outFile>>

\* lines 66-73: one draw, folded into the offset
EncChooseOffset ==
    /\ pc = "ChooseOffset"
    /\ \E r \in RandomDraws :
          offset' = FoldOffset(r, max_size, padded_size, level)
    /\ pc' = "BuildHeader"
    /\ UNCHANGED <<Args, pixels, size, padded_size, max_size, padded_data,
                   header, saved, ret, DecLocals, outFile>>

\* line 73 with a divisor of 0: the build traps (SIGFPE)
EncDivideByZero ==
    /\ pc = "ChooseOffset"
    /\ ModulusIsZero(max_size, padded_size)
    /\ pc' = "crashed"
    /\ UNCHANGED <<Args, pixels, EncLocals, saved, ret, DecLocals, outFile>>

\* lines 75-90: the header; a name over 32 bytes is refused
EncBuildHeader ==
    /\ pc = "BuildHeader"
    /\ IF Len(input[1].name) > NameSize
       THEN /\ pc' = "done"
            /\ ret' = -1
            /\ header' = header
       ELSE /\ pc' = "SerializeHeader"
            /\ ret' = ret
            /\ header' = BuildHeader(level, offset, padded_size, input[1].name)
    /\ UNCHANGED <<Args, pixels, size, padded_size, max_size, padded_data,
                   offset, saved, DecLocals, outFile>>

\* line 92: image.encode(&header, sizeof(header), level)
EncSerializeHeader ==
    /\ pc = "SerializeHeader"
    /\ pixels' = ImageEncode(pixels, header, level, 0)
    /\ pc' = "SerializePayload"
    /\ UNCHANGED <<Args, size, padded_size, max_size, padded_data, offset,
                   header, saved, ret, DecLocals, outFile>>

\* line 93: image.encode(padded_data, padded_size, level, offset)
EncSerializePayload ==
    /\ pc = "SerializePayload"
    /\ pixels' = ImageEncode(pixels, padded_data, level,
                             U32Mod(offset, Slots(pixels)))
    /\ pc' = "Save"
    /\ UNCHANGED <<Args, EncLocals, saved, ret, DecLocals, outFile>>

\* lines 97-103: save the image; `return false` and `return true` in an int
EncSave ==
    /\ pc = "Save"
    /\ \E ok \in BOOLEAN :
          IF ok THEN saved' = <<pixels>> /\ ret' = 1
                ELSE saved' = saved /\ ret' = 0
    /\ pc' = "done"
    /\ UNCHANGED <<Args, pixels, EncLocals, DecLocals, outFile>>

\* main, run again in decode mode on the image encode() saved
DecodeSaved ==
    /\ pc = "done"
    /\ mode = "encode"
    /\ saved # <<>>
    /\ mode' = "decode"
    /\ pixels' = saved[1]
    /\ pc' = "ReadHeaderRegion"
    /\ UNCHANGED <<img, input, level, EncLocals, saved, ret, DecLocals, outFile>>

\* the fields of the Header object in the bytes h
HdrSig(h) == SubSeq(h, 1, 4)
HdrVersion(h) == h[5] + 256 * h[6]
HdrLevel(h) == h[7]
HdrOffset(h) == U32FromBytes(SubSeq(h, 9, 12))
HdrSize(h) == U32FromBytes(SubSeq(h, 13, 16))
HdrName(h) == SubSeq(h, 17, 16 + NameSize)
HdrReserved(h) == SubSeq(h, 17 + NameSize, HeaderSize)

\* a validation that leaves the reserved bytes unchecked
HeaderValidNoReserved(h) == HdrSig(h) = Signature /\ HdrVersion(h) = VERSION

\* lines 113-128: the signature, the version and the reserved bytes
HeaderValid(h) ==
    /\ HdrSig(h) = Signature
    /\ HdrVersion(h) = VERSION
    /\ \A i \in 1..ReservedSize : HdrReserved(h)[i] = 0

\* lines 130-134: the name, all 32 bytes or up to the first NUL
RECURSIVE CString(_)
CString(bs) ==
    IF bs = <<>> \/ Head(bs) = 0 THEN <<>> ELSE <<Head(bs)>> \o CString(Tail(bs))

DecodedName(h) ==
    IF HdrName(h)[NameSize] # 0 THEN HdrName(h) ELSE CString(HdrName(h))

\* lines 109-111: the header region, read at level Low from slot 0
DecReadHeader ==
    /\ pc = "ReadHeaderRegion"
    /\ dheader' = ImageDecode(pixels, HeaderSize, Low, 0)
    /\ pc' = "ParseHeader"
    /\ UNCHANGED <<Args, pixels, EncLocals, saved, ret, name, data, left,
                   dsize, outFile>>

\* lines 113-136: validate the header and take the name
DecParseHeader ==
    /\ pc = "ParseHeader"
    /\ IF HeaderValid(dheader)
       THEN /\ pc' = "ReadPayloadRegion"
            /\ name' = DecodedName(dheader)
            /\ ret' = ret
       ELSE /\ pc' = "done"
            /\ name' = name
            /\ ret' = -1
    /\ UNCHANGED <<Args, pixels, EncLocals, saved, dheader, data, left,
                   dsize, outFile>>

\* line 139: the payload region, read as the header declares it
DecReadPayload ==
    /\ pc = "ReadPayloadRegion"
    /\ data' = ImageDecode(pixels, U32Nat(HdrSize(dheader)), HdrLevel(dheader),
                           U32Mod(HdrOffset(dheader), Slots(pixels)))
    /\ pc' = "StripPadding"
    /\ UNCHANGED <<Args, pixels, EncLocals, saved, ret, dheader, name, left,
                   dsize, outFile>>

\* lines 141-142: left and size.  data[header.size - 1] with header.size 0
\* reads before the buffer (any byte); a negative dsize stands for the
\* size_t value 2^64 + dsize
DecStripPadding ==
    /\ pc = "StripPadding"
    /\ \E l \in (IF data = <<>> THEN {0, 255} ELSE {data[Len(data)]}) :
          /\ left' = l
          /\ dsize' = Len(data) - l
    /\ pc' = "WriteOutput"
    /\ UNCHANGED <<Args, pixels, EncLocals, saved, ret, dheader, name, data,
                   outFile>>

\* lines 147-151: the output file cannot be opened
DecOpenFails ==
    /\ pc = "WriteOutput"
    /\ pc' = "done"
    /\ ret' = -1
    /\ UNCHANGED <<Args, pixels, EncLocals, saved, DecLocals, outFile>>

\* lines 147-157: write `size` bytes of data
DecWriteOutput ==
    /\ pc = "WriteOutput"
    /\ dsize >= 0
    /\ outFile' = <<SubSeq(data, 1, dsize)>>
    /\ pc' = "done"
    /\ ret' = 0
    /\ UNCHANGED <<Args, pixels, EncLocals, saved, DecLocals>>

\* line 153 with a size past the buffer: the write reads beyond data; it
\* traps there, or fails part-way and decode() goes on to return 0
DecWriteOverrun ==
    /\ pc = "WriteOutput"
    /\ dsize < 0
    /\ outFile' \in {<<data>>, <<data \o <<0>>>>}
    /\ \/ pc' = "crashed" /\ ret' = ret
       \/ pc' = "done" /\ ret' = 0
    /\ UNCHANGED <<Args, pixels, EncLocals, saved, DecLocals>>

Next ==
    \/ Main
    \/ EncReadInput
    \/ EncComputePadding
    \/ EncCheckCapacity
    \/ EncRandomFails
    \/ EncChooseOffset
    \/ EncDivideByZero
    \/ EncBuildHeader
    \/ EncSerializeHeader
    \/ EncSerializePayload
    \/ EncSave
    \/ DecodeSaved
    \/ DecReadHeader
    \/ DecParseHeader
    \/ DecReadPayload
    \/ DecStripPadding
    \/ DecOpenFails
    \/ DecWriteOutput
    \/ DecWriteOverrun

Spec == Init /\ [][Next]_vars

-----------------------------------------------------------------------------
(* The claims. *)

HeaderSlots == encoded_size(HeaderSize, Low)
InEncodeBody == pc \in {"ChooseOffset", "BuildHeader", "SerializeHeader",
                        "SerializePayload", "Save"}
PaddingComputed == input # <<>> /\ pc \notin {"main", "ReadInput", "ComputePadding"}
DecodingSaved == mode = "decode" /\ saved # <<>>

\* C1: decode() of the image encode() saved finds a valid header, recovers the
\* original filename and writes exactly the original bytes of the embed file
C1_RoundTrip ==
    DecodingSaved =>
        /\ pc \notin {"ReadHeaderRegion", "ParseHeader"} => HeaderValid(dheader)
        /\ pc = "WriteOutput" =>
              /\ name = input[1].name
              /\ dsize = Len(input[1].data)
              /\ SubSeq(data, 1, dsize) = input[1].data
        /\ (pc = "done" /\ ret = 0) => outFile = <<input[1].data>>

\* C2: when padded_size exceeds max_size, encode() has returned -1 with the
\* pixel buffer as loaded and no output image saved
C2_CapacityCheck ==
    (PaddingComputed /\ pc # "CheckCapacity" /\ U32Less(max_size, U32(padded_size))) =>
        /\ pc = "done"
        /\ ret = -1
        /\ pixels = Load(img)
        /\ saved = <<>>

C2_Witness ==
    /\ pc = "done"
    /\ mode = "encode"
    /\ ret = -1
    /\ size = PadBlock
    /\ U32Less(max_size, U32(padded_size))
    /\ pixels = Load(img)

\* C3: once encode() has written the header, reading HeaderSize bytes from
\* slot 0 at level Low yields the header, whatever the payload's level (on an
\* image that has the slots of a header)
C3_HeaderAtLow ==
    (pc = "SerializePayload" /\ Slots(pixels) >= HeaderSlots) =>
        ImageDecode(pixels, HeaderSize, Low, 0) = header

\* C4: past the capacity check the offset lies after the header's slots and
\* the payload's slots end within the image
C4_OffsetValid ==
    (pc \in {"BuildHeader", "SerializeHeader", "SerializePayload", "Save"}) =>
        /\ offset.hi = 0
        /\ offset.lo >= HeaderSlots
        /\ offset.lo + encoded_size(padded_size, level) <= Slots(pixels)

\* C5: the value returned is 0 exactly when the output was written
C5_ExitStatus ==
    pc = "done" =>
        IF mode = "encode" THEN (ret = 0 <=> saved # <<>>)
                           ELSE (ret = 0 <=> outFile # <<>>)

\* C6: when the last byte of the extracted payload is 0 or exceeds the
\* payload's length, decode() fails and writes nothing
C6_StripChecked ==
    (mode = "decode" /\ pc \in {"WriteOutput", "done", "crashed"} /\ data # <<>>
        /\ (left = 0 \/ left > Len(data))) =>
        /\ outFile = <<>>
        /\ pc = "done" => ret # 0

\* C7: padded_size is a multiple of 16 and at least size + 1, the pad length
\* is in 1..16, and the padded data is the file's bytes followed by pad bytes
\* that each hold the pad length
C7_PaddingLaw ==
    PaddingComputed =>
        /\ padded_size % PadBlock = 0
        /\ padded_size >= size + 1
        /\ padded_size - size \in 1..PadBlock
        /\ InEncodeBody =>
              /\ Len(padded_data) = padded_size
              /\ SubSeq(padded_data, 1, size) = input[1].data
              /\ \A i \in (size + 1)..padded_size :
                    padded_data[i] = padded_size - size

C7_Witness ==
    /\ pc = "ChooseOffset"
    /\ size = PadBlock
    /\ padded_size = 2 * PadBlock
    /\ padded_data[size + 1] = PadBlock

\* C8: on an image whose capacity is below the header's slot count, max_size
\* is 0 and encode() does not get past the capacity check
C8_MaxSizeNotNegative ==
    (PaddingComputed
        /\ Slots(Load(img)) \div encoded_size(1, level) < HeaderSlots) =>
        /\ max_size = U32(0)
        /\ ~InEncodeBody

\* C9: a header with a wrong signature, a wrong version or a nonzero reserved
\* byte ends decode() with -1, no payload read and no output written
C9_HeaderValidationAborts ==
    (mode = "decode" /\ dheader # <<>> /\ pc # "ParseHeader"
        /\ (\/ HdrSig(dheader) # Signature
            \/ HdrVersion(dheader) # VERSION
            \/ \E i \in 1..ReservedSize : HdrReserved(dheader)[i] # 0)) =>
        /\ pc = "done"
        /\ ret = -1
        /\ data = <<>>
        /\ outFile = <<>>

C9_Witness ==
    /\ mode = "decode"
    /\ pc = "done"
    /\ ret = -1
    /\ dheader # <<>>
    /\ HdrSig(dheader) = Signature
    /\ HdrVersion(dheader) = VERSION
    /\ \E i \in 1..ReservedSize : HdrReserved(dheader)[i] # 0
    /\ outFile = <<>>

\* C10: past the capacity check the divisor of the offset folding,
\* encoded_size(max_size - padded_size, level), is at least 1
C10_ModulusPositive ==
    pc = "ChooseOffset" => max_size # U32(padded_size)
====
